---- MODULE Spec2Model ----
(***************************************************************************)
(* Real-time widget synchronisation layer of glowing-telegram:             *)
(* src/websocket_lambda/{authorizer,connect,disconnect,message,            *)
(* widget_change,task_change}.py.                                          *)
(*                                                                         *)
(* The Connection Store and the Widget Store are the only shared state;   *)
(* every handler is an independent invocation whose local variables live  *)
(* in inv (message handlers), wc (widget-change consumer) and tc          *)
(* (task-change consumer).  A handler takes one step per store or relay   *)
(* access, so invocations interleave exactly where the code touches       *)
(* shared state.                                                           *)
(*                                                                         *)
(* Python None and a missing attribute are the empty string "" (strings), *)
(* the empty set (a DynamoDB string set cannot be empty) and NoTick       *)
(* (timestamps).                                                           *)
(***************************************************************************)
EXTENDS Integers, Sequences, FiniteSets, TLC

\* ------------------------------------------------------------------ bounds
\* Largest duration_left of the countdown states the engine starts from.
MaxLeft == 2
\* Largest value of the wall clock.
MaxNow == 1
\* Most stream records waiting for the widget-change consumer.
MaxStream == 1
\* Most records in one batch handed to a mutation-feed consumer.
MaxBatch == 2
\* Longest segment path, in symbols.
MaxPath == 4

\* ------------------------------------------------------------------ inputs
Users == {"u1", "u2"}
WidgetIds == {"w1", "w2"}
ConnIds == {"c1", "c2", "c3"}
None == ""
NoTick == -1
DefaultDuration == 300
Times == 0..MaxNow
\* Durations a widget's config or a set_duration payload may carry.
Durations == {1, 2}

\* The widgets the CRUD surface may create: owner and type are fixed per id.
\* w1 and w2 share an owner, so a WidgetAccess viewer of one can be told apart
\* from a viewer of the owner's other widget; u2 owns nothing.
WidgetOwner(w) == "u1"
WidgetType(w) == IF w = "w1" THEN "countdown" ELSE "text"
\* The access_token attribute of widget w (a UUID string).
AccessToken(w) == [kind |-> "uuid", of |-> w]

\* ------------------------------------------------------------------ state
VARIABLES
    connections,   \* Connection Store: connectionId -> item
    widgets,       \* Widget Store: widget id -> item
    transport,     \* the relay's view of each connection id
    now,           \* wall clock
    stream,        \* Widget Store change stream, oldest record first
    inv,           \* message.handler invocations in progress, per connection
    last,          \* the response a message handler returned in the step just taken
    wc,            \* widget_change.handler invocation
    tc             \* task_change.handler invocation

vars == <<connections, widgets, transport, now, stream, inv, last, wc, tc>>

\* ------------------------------------------------------------------ items
NoConnection ==
    [exists |-> FALSE, authType |-> None, user_id |-> None, widgetId |-> None,
     subscribed_widgets |-> {}]

NoState == [enabled |-> FALSE, duration_left |-> 0, last_tick_timestamp |-> NoTick,
            extra |-> FALSE]

NoWidget ==
    [exists |-> FALSE, id |-> None, user_id |-> None, type |-> None,
     config |-> [duration |-> 0], state |-> NoState]

\* float: the payload's duration is a JSON number with a fraction or an
\* exponent, which json.loads makes a Python float.  bool: the payload's
\* duration is the JSON literal true, which json.loads makes Python's True,
\* an int of value 1.
NoMessage == [type |-> None, widgetId |-> None, action |-> None, duration |-> 0,
              float |-> FALSE, bool |-> FALSE]

IdleInv == [pc |-> "idle", connection |-> NoConnection, message |-> NoMessage,
            widget |-> NoWidget, success |-> FALSE, new_state |-> NoState]

NoReply == [conn |-> None, type |-> None, widgetId |-> None, status |-> None,
            pushed |-> None, outcome |-> None]


\* ------------------------------------------------------------------ Action Engine
Max(a, b) == IF a >= b THEN a ELSE b

NoDuration == -1
InvalidDuration == -2
CountdownActions == {"start", "pause", "resume", "reset", "set_duration"}

\* config.get("duration", 300)
config_duration(config) ==
    IF config.duration = NoDuration THEN DefaultDuration ELSE config.duration

\* handle_countdown_action, lines 237-248: start.
countdown_start(state, config, t) ==
    [success |-> TRUE,
     new_state |-> [state EXCEPT !.enabled = TRUE,
                                 !.last_tick_timestamp = t,
                                 !.duration_left = config_duration(config)]]

\* pause that subtracts the elapsed time without the max(0, ...) of line 262.
countdown_pause_unclamped(state, t) ==
    LET current_duration == state.duration_left
        last_tick == state.last_tick_timestamp
        new_duration ==
            IF last_tick # NoTick /\ state.enabled
            THEN current_duration - (t - last_tick)
            ELSE current_duration
    IN  [success |-> TRUE,
         new_state |-> [state EXCEPT !.enabled = FALSE,
                                     !.duration_left = new_duration,
                                     !.last_tick_timestamp = NoTick]]

\* handle_countdown_action, lines 250-275: pause.
countdown_pause(state, t) ==
    LET current_duration == state.duration_left
        last_tick == state.last_tick_timestamp
        new_duration ==
            IF last_tick # NoTick /\ state.enabled
            THEN Max(0, current_duration - (t - last_tick))
            ELSE current_duration
    IN  [success |-> TRUE,
         new_state |-> [state EXCEPT !.enabled = FALSE,
                                     !.duration_left = new_duration,
                                     !.last_tick_timestamp = NoTick]]

\* resume that leaves the timestamp as it finds it.
countdown_resume_same_tick(state, t) ==
    [success |-> TRUE, new_state |-> [state EXCEPT !.enabled = TRUE]]

\* handle_countdown_action, lines 277-286: resume.
countdown_resume(state, t) ==
    [success |-> TRUE,
     new_state |-> [state EXCEPT !.enabled = TRUE, !.last_tick_timestamp = t]]

\* reset that builds the new state on the old one, as the other actions do.
countdown_reset_on_state(state, config) ==
    [success |-> TRUE,
     new_state |-> [state EXCEPT !.enabled = FALSE,
                                 !.duration_left = config_duration(config),
                                 !.last_tick_timestamp = NoTick]]

\* handle_countdown_action, lines 288-300: reset; the new state is built
\* from scratch, so fields other than the three are dropped.
countdown_reset(state, config) ==
    [success |-> TRUE,
     new_state |-> [enabled |-> FALSE,
                    duration_left |-> config_duration(config),
                    last_tick_timestamp |-> NoTick,
                    extra |-> FALSE]]

\* handle_countdown_action, lines 302-327: set_duration.
countdown_set_duration(state, duration, t) ==
    IF duration = InvalidDuration \/ duration < 0
    THEN [success |-> FALSE, new_state |-> state]
    ELSE IF state.enabled
    THEN [success |-> TRUE,
          new_state |-> [state EXCEPT !.duration_left = duration,
                                      !.last_tick_timestamp = t]]
    ELSE [success |-> TRUE,
          new_state |-> [state EXCEPT !.duration_left = duration]]

\* handle_countdown_action(widget, action, payload) evaluated at wall-clock
\* time t; payload.duration is InvalidDuration when it is no number.
handle_countdown_action(widget, action, duration, t) ==
    LET state == widget.state
        config == widget.config
    IN  CASE action = "start" -> countdown_start(state, config, t)
          [] action = "pause" -> countdown_pause(state, t)
          [] action = "resume" -> countdown_resume(state, t)
          [] action = "reset" -> countdown_reset(state, config)
          [] action = "set_duration" -> countdown_set_duration(state, duration, t)
          [] OTHER -> [success |-> FALSE, new_state |-> state]

\* ------------------------------------------------------------------ Token Verifier
\* Tokens a client may present: none, a valid Cognito JWT of a user, a JWT that
\* fails verification, a UUID (the access token of widget `of`, which may or
\* may not exist), or a string of neither shape.
Tokens ==
    {[kind |-> "none", of |-> None], [kind |-> "garbage", of |-> None]}
    \cup {[kind |-> "jwt", of |-> u] : u \in Users}
    \cup {[kind |-> "badjwt", of |-> u] : u \in Users}
    \cup {[kind |-> "uuid", of |-> w] : w \in WidgetIds}

NoAuth == [userId |-> None, widgetId |-> None, authType |-> None]

\* verify_cognito_jwt decoding the token without verifying its signature.
verify_cognito_jwt_unverified(token) ==
    IF token.kind \in {"jwt", "badjwt"}
    THEN [userId |-> token.of, widgetId |-> None, authType |-> "FullAccess"]
    ELSE NoAuth

verify_cognito_jwt(token) ==
    IF token.kind = "jwt"
    THEN [userId |-> token.of, widgetId |-> None, authType |-> "FullAccess"]
    ELSE NoAuth

is_valid_uuid(token) == token.kind = "uuid"

verify_widget_token(token) ==
    IF ~is_valid_uuid(token) THEN NoAuth
    ELSE LET items == {w \in WidgetIds :
                          widgets[w].exists /\ widgets[w].user_id # None
                          /\ AccessToken(w) = token}
             \* (an item that update_item created from a key alone carries
             \* no access_token and no user_id)
         IN  IF items # {}
             THEN LET w == CHOOSE x \in items : TRUE
                  IN  [userId |-> widgets[w].user_id, widgetId |-> w,
                       authType |-> "WidgetAccess"]
             ELSE NoAuth

\* authorizer.handler: the policy effect and the context attached to it.
authorizer_handler(token) ==
    IF token.kind = "none" THEN [effect |-> "Deny", context |-> NoAuth]
    ELSE LET cognito_auth == verify_cognito_jwt(token)
             widget_auth == verify_widget_token(token)
         IN  IF cognito_auth # NoAuth
             THEN [effect |-> "Allow", context |-> cognito_auth]
             ELSE IF widget_auth # NoAuth
             THEN [effect |-> "Allow", context |-> widget_auth]
             ELSE [effect |-> "Deny", context |-> NoAuth]

\* ------------------------------------------------------------------ connect / disconnect
\* connect.handler: the item put_item stores for an authorizer context.
connect_item(authorizer) ==
    [exists |-> TRUE,
     authType |-> IF authorizer.authType = None THEN "FullAccess"
                  ELSE authorizer.authType,
     user_id |-> authorizer.userId,
     widgetId |-> authorizer.widgetId,
     subscribed_widgets |-> {}]

\* A client opens connection c with a token; the relay runs the authorizer and,
\* when it allows, the $connect route's handler.
Connect(c, token) ==
    /\ transport[c] = "fresh"
    /\ LET policy == authorizer_handler(token)
           authorizer == policy.context
       IN  IF policy.effect = "Deny"
              \/ (authorizer.userId = None /\ authorizer.widgetId = None)
           THEN UNCHANGED <<connections, transport>>
           ELSE /\ connections' = [connections EXCEPT ![c] = connect_item(authorizer)]
                /\ transport' = [transport EXCEPT ![c] = "open"]
    /\ UNCHANGED <<widgets, now, stream, inv, wc, tc>>
    /\ last' = NoReply

\* The authorizer contexts a $connect event may carry.
AuthContexts ==
    {[userId |-> u, widgetId |-> None, authType |-> "FullAccess"] : u \in Users}
    \cup {[userId |-> WidgetOwner(w), widgetId |-> w, authType |-> "WidgetAccess"] :
            w \in WidgetIds}

\* connect.handler run again on the $connect event of the open connection c
\* (the event whose authorizer context made c's record).
ConnectRetry(c, authorizer) ==
    /\ transport[c] = "open"
    /\ connections[c].exists
    /\ connections[c].authType = connect_item(authorizer).authType
    /\ connections[c].user_id = connect_item(authorizer).user_id
    /\ connections[c].widgetId = connect_item(authorizer).widgetId
    /\ connections' = [connections EXCEPT ![c] = connect_item(authorizer)]
    /\ UNCHANGED <<widgets, transport, now, stream, inv, wc, tc>>
    /\ last' = [NoReply EXCEPT !.conn = c, !.status = "200 Connected"]

\* The client goes away; the relay will raise the $disconnect event.
Close(c) ==
    /\ transport[c] = "open"
    /\ transport' = [transport EXCEPT ![c] = "closing"]
    /\ UNCHANGED <<connections, widgets, now, stream, inv, wc, tc>>
    /\ last' = NoReply

\* connections_table.delete_item(Key={connectionId})
delete_item(table, c) == [table EXCEPT ![c] = NoConnection]

\* disconnect.handler
Disconnect(c) ==
    /\ transport[c] = "closing"
    /\ transport' = [transport EXCEPT ![c] = "closed"]
    /\ connections' = delete_item(connections, c)
    /\ UNCHANGED <<widgets, now, stream, inv, wc, tc>>
    /\ last' = NoReply

\* ------------------------------------------------------------------ relay
\* What post_to_connection can answer for connection c: a closed connection
\* raises GoneException, an open one accepts the message or fails with another
\* ClientError.  Any call may also raise an exception that is no ClientError
\* (botocore's connection and timeout errors).
RelayOutcomes(c) ==
    IF transport[c] = "open" THEN {"ok", "error", "exception"}
    ELSE {"gone", "exception"}


\* ------------------------------------------------------------------ message.handler
MessageTypes == {"WIDGET_SUBSCRIBE", "WIDGET_UNSUBSCRIBE", "WIDGET_ACTION", "PING"}
Actions == CountdownActions \cup {"bogus"}
PayloadDurations == Durations \cup {InvalidDuration}

\* Inbound client messages; a missing widgetId or action is None.
Messages ==
    {[NoMessage EXCEPT !.type = "PING"]}
    \cup {[NoMessage EXCEPT !.type = t, !.widgetId = w] :
            t \in {"WIDGET_SUBSCRIBE", "WIDGET_UNSUBSCRIBE"},
            w \in WidgetIds \cup {None}}
    \cup {[NoMessage EXCEPT !.type = "WIDGET_ACTION", !.widgetId = w, !.action = a] :
            w \in WidgetIds \cup {None}, a \in Actions \ {"set_duration"}}
    \cup {[NoMessage EXCEPT !.type = "WIDGET_ACTION", !.widgetId = w,
                            !.action = "set_duration", !.duration = d] :
            w \in WidgetIds, d \in PayloadDurations}
    \cup {[NoMessage EXCEPT !.type = "WIDGET_ACTION", !.widgetId = w,
                            !.action = "set_duration", !.duration = d,
                            !.float = TRUE] :
            w \in WidgetIds, d \in Durations}
    \cup {[NoMessage EXCEPT !.type = "WIDGET_ACTION", !.widgetId = w,
                            !.action = "set_duration", !.duration = 1,
                            !.bool = TRUE] :
            w \in WidgetIds}

Inflight == {c \in ConnIds : inv[c].pc # "idle"}

\* The handler invocations in progress: message handlers and feed consumers.
InProgress ==
    Cardinality(Inflight) + (IF wc.pc # "idle" THEN 1 ELSE 0)
                          + (IF tc.pc # "idle" THEN 1 ELSE 0)

\* The handler returns `status` to the relay; `pushed` is the message type it
\* posted to its own connection, if any, and `outcome` what the relay
\* answered to that post.
ReturnPosted(c, status, pushed, outcome) ==
    /\ inv' = [inv EXCEPT ![c] = IdleInv]
    /\ last' = [conn |-> c, type |-> inv[c].message.type,
                widgetId |-> inv[c].message.widgetId, status |-> status,
                pushed |-> pushed, outcome |-> outcome]

Return(c, status, pushed) == ReturnPosted(c, status, pushed, None)

\* widgets_table.get_item(Key={"id": widget_id}).get("Item")
get_widget(widget_id) == IF widget_id \in WidgetIds THEN widgets[widget_id] ELSE NoWidget

\* message.handler, lines 31-48: a frame arrives on open connection c and the
\* handler fetches the connection's item.
Receive(c, message) ==
    /\ transport[c] = "open"
    /\ inv[c].pc = "idle"
    /\ IF ~connections[c].exists
       THEN /\ last' = [conn |-> c, type |-> message.type,
                        widgetId |-> message.widgetId,
                        status |-> "404 Connection not found", pushed |-> None,
                        outcome |-> None]
            /\ UNCHANGED inv
       ELSE /\ inv' = [inv EXCEPT ![c] = [IdleInv EXCEPT !.pc = "routed",
                                                         !.connection = connections[c],
                                                         !.message = message]]
            /\ last' = NoReply
    /\ UNCHANGED <<connections, widgets, transport, now, stream, wc, tc>>

\* handle_subscribe's access check without the ownership comparison.
subscribe_access_any_owner(connection, widget, widget_id) ==
    IF connection.authType = "WidgetAccess" /\ connection.widgetId # widget_id
    THEN "403 Forbidden" ELSE None

\* handle_subscribe's access check (lines 88-108): the status it returns, or
\* None when access is granted.
subscribe_access(connection, widget, widget_id) ==
    LET auth_type == IF connection.authType = None THEN "FullAccess"
                     ELSE connection.authType
    IN  IF auth_type = "WidgetAccess"
        THEN IF connection.widgetId # widget_id THEN "403 Forbidden" ELSE None
        ELSE IF auth_type = "FullAccess"
        THEN IF widget.user_id # connection.user_id THEN "403 Forbidden" ELSE None
        ELSE None

\* handle_subscribe, lines 72-108: fetch the widget and validate access.
handle_subscribe(c) ==
    LET connection == inv[c].connection
        widget_id == inv[c].message.widgetId
        widget == get_widget(widget_id)
        denied == subscribe_access(connection, widget, widget_id)
    IN  /\ inv[c].pc = "routed"
        /\ inv[c].message.type = "WIDGET_SUBSCRIBE"
        /\ IF widget_id = None THEN Return(c, "400 Missing widgetId", None)
           ELSE IF ~widget.exists THEN Return(c, "404 Widget not found", None)
           ELSE IF denied # None THEN Return(c, denied, None)
           ELSE /\ inv' = [inv EXCEPT ![c].pc = "subscribe_update",
                                      ![c].widget = widget]
                /\ last' = NoReply
        /\ UNCHANGED <<connections, widgets, transport, now, stream, wc, tc>>

\* update_item(Key={connectionId}, "ADD subscribed_widgets :widget_id"):
\* DynamoDB creates the item from the key when there is none.
add_subscription(table, c, widget_id) ==
    [table EXCEPT ![c] = [@ EXCEPT !.exists = TRUE,
                                   !.subscribed_widgets = @ \cup {widget_id}]]

\* update_item(Key={connectionId}, "DELETE subscribed_widgets :widget_id"):
\* with no item under the key there is nothing to delete.
delete_subscription(table, c, widget_id) ==
    [table EXCEPT ![c] = [@ EXCEPT !.subscribed_widgets = @ \ {widget_id}]]

\* handle_subscribe, lines 110-120.
subscribe_update(c) ==
    /\ inv[c].pc = "subscribe_update"
    /\ connections' = add_subscription(connections, c, inv[c].message.widgetId)
    /\ inv' = [inv EXCEPT ![c].pc = "subscribe_send"]
    /\ UNCHANGED <<widgets, transport, now, stream, wc, tc>>
    /\ last' = NoReply

\* send_message (lines 333-352): the Connection Store after posting to c with
\* the given relay outcome.  Only a ClientError is caught by send_message.
send_message(c, outcome) ==
    IF outcome = "gone" THEN delete_item(connections, c) ELSE connections

\* handle_subscribe, lines 122-135: push the widget read before the update.
subscribe_send(c) ==
    /\ inv[c].pc = "subscribe_send"
    /\ \E outcome \in RelayOutcomes(c) :
          /\ connections' = send_message(c, outcome)
          /\ ReturnPosted(c, "200 Subscribed", "WIDGET_INITIAL_STATE", outcome)
    /\ UNCHANGED <<widgets, transport, now, stream, wc, tc>>

\* handle_unsubscribe, lines 138-155.
handle_unsubscribe(c) ==
    LET widget_id == inv[c].message.widgetId
    IN  /\ inv[c].pc = "routed"
        /\ inv[c].message.type = "WIDGET_UNSUBSCRIBE"
        /\ IF widget_id = None
           THEN /\ Return(c, "400 Missing widgetId", None)
                /\ UNCHANGED connections
           ELSE /\ connections' = delete_subscription(connections, c, widget_id)
                /\ Return(c, "200 Unsubscribed", None)
        /\ UNCHANGED <<widgets, transport, now, stream, wc, tc>>

\* message.handler, lines 66-68.
unknown_message(c) ==
    /\ inv[c].pc = "routed"
    /\ inv[c].message.type \notin {"WIDGET_SUBSCRIBE", "WIDGET_UNSUBSCRIBE",
                                   "WIDGET_ACTION"}
    /\ Return(c, "400 Unknown message type", None)
    /\ UNCHANGED <<connections, widgets, transport, now, stream, wc, tc>>


\* ------------------------------------------------------------------ Widget Store stream
\* The record DynamoDB Streams emits for a write that turns item old into new.
stream_record(old, new) ==
    [eventName |-> IF ~new.exists THEN "REMOVE"
                   ELSE IF old.exists THEN "MODIFY" ELSE "INSERT",
     NewImage |-> new, OldImage |-> old]

\* The Widget Store write of item new under key w, with its stream record.
write_widget(w, new) ==
    /\ Len(stream) < MaxStream
    /\ widgets' = [widgets EXCEPT ![w] = new]
    /\ stream' = Append(stream, stream_record(widgets[w], new))

\* widgets_table.update_item(Key={"id"}, "SET #state = :state, updated_at = :now"):
\* an item created from the key alone has an id, a state and nothing else.
set_state(widget, w, state) ==
    IF widget.exists THEN [widget EXCEPT !.state = state]
    ELSE [NoWidget EXCEPT !.exists = TRUE, !.id = w, !.state = state,
                          !.config = [duration |-> NoDuration]]

\* ------------------------------------------------------------------ handle_action
\* The numbers of an item that Table.get_item returns are decimal.Decimal.
\* At line 262 elapsed_seconds is a float, and Decimal - float raises
\* TypeError: pause raises when it gets to the subtraction.
pause_raises(widget) ==
    widget.state.last_tick_timestamp # NoTick /\ widget.state.enabled

\* handle_action, lines 180-187: the type-specific transition of the item
\* fetched from the table; raised when it ends in an exception.
action_result(widget, action, duration, t) ==
    LET result == handle_countdown_action(widget, action, duration, t)
    IN  IF widget.type # "countdown"
        THEN [success |-> FALSE, new_state |-> widget.state, raised |-> FALSE]
        ELSE IF action = "pause" /\ pause_raises(widget)
        THEN [success |-> FALSE, new_state |-> widget.state, raised |-> TRUE]
        ELSE [success |-> result.success, new_state |-> result.new_state,
              raised |-> FALSE]

\* Table.update_item serialises :state with boto3's TypeSerializer, which
\* raises TypeError for a Python float: the state computed from a float
\* payload cannot be written.
update_raises(message) == message.action = "set_duration" /\ message.float

\* handle_action's access check without the read-only rule for WidgetAccess.
action_access_no_tier(connection, widget, widget_id, action) ==
    IF widget_id = None \/ action = None THEN "400 Missing widgetId or action"
    ELSE IF ~widget.exists THEN "404 Widget not found"
    ELSE IF widget.user_id # connection.user_id THEN "403 Forbidden"
    ELSE None

\* handle_action's access check (lines 160-178): the status it returns, or
\* None when the action may run.
action_access(connection, widget, widget_id, action) ==
    LET auth_type == IF connection.authType = None THEN "FullAccess"
                     ELSE connection.authType
    IN  IF auth_type = "WidgetAccess" THEN "403 Read-only access"
        ELSE IF widget_id = None \/ action = None
        THEN "400 Missing widgetId or action"
        ELSE IF ~widget.exists THEN "404 Widget not found"
        ELSE IF widget.user_id # connection.user_id THEN "403 Forbidden"
        ELSE None

\* handle_action, lines 158-187: check access, fetch the widget, compute.
handle_action(c) ==
    LET connection == inv[c].connection
        message == inv[c].message
        widget == get_widget(message.widgetId)
        denied == action_access(connection, widget, message.widgetId, message.action)
        result == action_result(widget, message.action, message.duration, now)
    IN  /\ inv[c].pc = "routed"
        /\ message.type = "WIDGET_ACTION"
        /\ IF denied # None THEN Return(c, denied, None)
           ELSE /\ inv' = [inv EXCEPT
                            ![c].pc = IF result.raised THEN "action_error"
                                      ELSE IF result.success THEN "action_update"
                                      ELSE "action_send",
                            ![c].widget = widget,
                            ![c].success = result.success,
                            ![c].new_state = result.new_state]
                /\ last' = NoReply
        /\ UNCHANGED <<connections, widgets, transport, now, stream, wc, tc>>

\* A write that first looks at the stored state again and, when it is no
\* longer the state the handler read, computes the transition anew from it.
action_update_recomputed(c) ==
    LET w == inv[c].message.widgetId
        result == action_result(widgets[w], inv[c].message.action,
                                inv[c].message.duration, now)
    IN  /\ inv[c].pc = "action_update"
        /\ IF update_raises(inv[c].message)
           THEN /\ inv' = [inv EXCEPT ![c].pc = "action_error"]
                /\ UNCHANGED <<widgets, stream>>
           ELSE /\ write_widget(w, set_state(widgets[w], w, result.new_state))
                /\ inv' = [inv EXCEPT ![c].pc = "action_send"]
        /\ last' = NoReply
        /\ UNCHANGED <<connections, transport, now, wc, tc>>

\* handle_action, lines 189-199: persist the new state.
action_update(c) ==
    LET w == inv[c].message.widgetId
    IN  /\ inv[c].pc = "action_update"
        /\ IF update_raises(inv[c].message)
           THEN /\ inv' = [inv EXCEPT ![c].pc = "action_error"]
                /\ UNCHANGED <<widgets, stream>>
           ELSE /\ write_widget(w, set_state(widgets[w], w, inv[c].new_state))
                /\ inv' = [inv EXCEPT ![c].pc = "action_send"]
        /\ last' = NoReply
        /\ UNCHANGED <<connections, transport, now, wc, tc>>

\* handle_action, lines 201-229: post the WIDGET_ACTION_RESPONSE.  When the
\* post raises an exception that send_message does not catch, the handler's
\* except clause posts a failure response and returns 500.
action_send(c) ==
    /\ inv[c].pc = "action_send"
    /\ \E outcome \in RelayOutcomes(c) :
          /\ connections' = send_message(c, outcome)
          /\ Return(c, IF outcome = "exception" THEN "500 Internal error"
                       ELSE IF inv[c].success THEN "200 Action executed"
                       ELSE "400 Action executed",
                    "WIDGET_ACTION_RESPONSE")
    /\ UNCHANGED <<widgets, transport, now, stream, wc, tc>>

\* handle_action, lines 217-229: an exception raised while the action was
\* computed or written is answered with a failure response and 500.
action_error(c) ==
    /\ inv[c].pc = "action_error"
    /\ \E outcome \in RelayOutcomes(c) :
          /\ connections' = send_message(c, outcome)
          /\ Return(c, "500 Internal error", "WIDGET_ACTION_RESPONSE")
    /\ UNCHANGED <<widgets, transport, now, stream, wc, tc>>

\* ------------------------------------------------------------------ widget CRUD surface
InitialState(d) == [NoState EXCEPT !.duration_left = d]

\* The item of widget w with config.duration d and a stopped countdown at dl.
WidgetItem(w, d, dl) ==
    [exists |-> TRUE, id |-> w, user_id |-> WidgetOwner(w),
     type |-> WidgetType(w), config |-> [duration |-> d],
     state |-> InitialState(dl)]

CreateWidget(w, d) ==
    /\ ~widgets[w].exists
    /\ write_widget(w, WidgetItem(w, d, d))
    /\ UNCHANGED <<connections, transport, now, inv, wc, tc>>
    /\ last' = NoReply

\* An edit of the widget's config, or (with the same duration) of an
\* attribute that is neither config nor state.
UpdateWidget(w, d) ==
    /\ widgets[w].exists
    /\ widgets[w].user_id # None
    /\ write_widget(w, [widgets[w] EXCEPT !.config = [duration |-> d]])
    /\ UNCHANGED <<connections, transport, now, inv, wc, tc>>
    /\ last' = NoReply

DeleteWidget(w) ==
    /\ widgets[w].exists
    /\ write_widget(w, NoWidget)
    /\ UNCHANGED <<connections, transport, now, inv, wc, tc>>
    /\ last' = NoReply

Tick ==
    /\ now < MaxNow
    /\ now' = now + 1
    /\ UNCHANGED <<connections, widgets, transport, stream, inv, wc, tc>>
    /\ last' = NoReply


\* ------------------------------------------------------------------ widget_change.py
Min(a, b) == IF a <= b THEN a ELSE b

\* The locals of one widget_change.handler invocation.  The event holds n
\* records and i of them are handled; batch is the records when they came
\* off the Widget Store stream (empty when the records are drawn as the loop
\* reaches them).  record, connections, kinds, tried and gone describe the
\* record in hand (or the one handled last): the recipients found, the message
\* types to broadcast, the posts attempted (<<type, connection>>) and the
\* recipients that answered GoneException.  errors holds the positions of the
\* records whose handling raised.
NoRecord == [eventName |-> None, NewImage |-> NoWidget, OldImage |-> NoWidget]

IdleWc == [pc |-> "idle", n |-> 0, i |-> 0, batch |-> <<>>, record |-> NoRecord,
           connections |-> {}, kinds |-> <<>>, k |-> 0, todo |-> {},
           tried |-> {}, gone |-> {}, errors |-> {}]

\* find_connections_for_widget without the FilterExpression on
\* subscribed_widgets.
find_connections_for_widget_unfiltered(user_id, widget_id) ==
    {c \in ConnIds : /\ connections[c].exists
                     /\ user_id # None
                     /\ connections[c].user_id = user_id}
    \cup {c \in ConnIds : connections[c].exists /\ connections[c].widgetId = widget_id}

\* find_connections_for_widget, lines 118-154.
find_connections_for_widget(user_id, widget_id) ==
    {c \in ConnIds : /\ connections[c].exists
                     /\ user_id # None
                     /\ connections[c].user_id = user_id
                     /\ widget_id \in connections[c].subscribed_widgets}
    \cup {c \in ConnIds : connections[c].exists /\ connections[c].widgetId = widget_id}

\* handle_widget_change, lines 59-73.
config_changed(widget, old_widget, event_name) ==
    IF event_name = "INSERT" THEN TRUE
    ELSE IF event_name = "MODIFY" /\ old_widget.exists
    THEN widget.config # old_widget.config
    ELSE FALSE

\* state_changed that compares the states of a MODIFY record's images the
\* wrong way round: equal states count as a change, different ones do not.
state_changed_on_equal(widget, old_widget, event_name) ==
    IF event_name = "INSERT" THEN TRUE
    ELSE IF event_name = "MODIFY" /\ old_widget.exists
    THEN widget.state = old_widget.state
    ELSE FALSE

state_changed(widget, old_widget, event_name) ==
    IF event_name = "INSERT" THEN TRUE
    ELSE IF event_name = "MODIFY" /\ old_widget.exists
    THEN widget.state # old_widget.state
    ELSE FALSE

\* handle_widget_change, lines 89-112: the messages broadcast, in order.
message_kinds(widget, old_widget, event_name) ==
    (IF config_changed(widget, old_widget, event_name)
     THEN <<"WIDGET_CONFIG_UPDATE">> ELSE <<>>)
    \o (IF state_changed(widget, old_widget, event_name)
        THEN <<"WIDGET_STATE_UPDATE">> ELSE <<>>)

\* handler lines 35-47 and handle_widget_change lines 52-87 for one record:
\* the recipients and the messages to broadcast to them.  deser and query say
\* whether deserialising the images, and querying the Connection Store, raise.
widget_change_plan(record, deser, query) ==
    LET widget == record.NewImage
        nothing == [connections |-> {}, kinds |-> <<>>, raised |-> FALSE]
    IN  IF record.eventName \notin {"MODIFY", "INSERT"} THEN nothing
        ELSE IF deser = "raise" THEN [nothing EXCEPT !.raised = TRUE]
        ELSE IF ~widget.exists \/ widget.id = None THEN nothing
        ELSE IF widget.user_id = None THEN nothing
        ELSE IF query = "raise" THEN nothing
        ELSE LET found == find_connections_for_widget(widget.user_id, widget.id)
             IN  IF found = {} THEN nothing
                 ELSE [connections |-> found,
                       kinds |-> message_kinds(widget, record.OldImage,
                                               record.eventName),
                       raised |-> FALSE]

\* The handler's locals after it has finished the record in hand.
record_done(w) == [w EXCEPT !.pc = "loop", !.i = @ + 1, !.todo = {}]

\* An exception that escapes the handler: the invocation ends there.
record_raised_escapes(w) == [w EXCEPT !.pc = "idle"]

\* An exception raised while a record is handled: caught and logged
\* (handler line 48, handle_widget_change line 114), the loop goes on.
record_raised(w) == [record_done(w) EXCEPT !.errors = @ \cup {w.i + 1}]

\* handler, lines 34-49, up to the first post for the next record.
widget_change_record(w, record, deser, query) ==
    LET plan == widget_change_plan(record, deser, query)
        v == [w EXCEPT !.record = record, !.connections = plan.connections,
                       !.kinds = plan.kinds, !.k = 1, !.tried = {}, !.gone = {}]
    IN  IF plan.raised THEN record_raised(v)
        ELSE IF plan.kinds = <<>> THEN record_done(v)
        ELSE [v EXCEPT !.pc = "broadcast", !.todo = plan.connections]

\* The Lambda event source hands the oldest stream records to the handler.
WcInvoke ==
    /\ wc.pc = "idle"
    /\ stream # <<>>
    /\ \E n \in 1..Min(MaxBatch, Len(stream)) :
          /\ wc' = [IdleWc EXCEPT !.pc = "loop", !.n = n,
                                  !.batch = SubSeq(stream, 1, n)]
          /\ stream' = SubSeq(stream, n + 1, Len(stream))
    /\ UNCHANGED <<connections, widgets, transport, now, inv, tc>>
    /\ last' = NoReply

\* The loop of handler line 34 taking the newest record of the batch first.
WcRecord_newest_first ==
    /\ wc.pc = "loop"
    /\ wc.batch # <<>>
    /\ wc.i < wc.n
    /\ \E deser \in {"ok", "raise"}, query \in {"ok", "raise"} :
          wc' = widget_change_record(wc, wc.batch[wc.n - wc.i], deser, query)
    /\ UNCHANGED <<connections, widgets, transport, now, stream, inv, tc>>
    /\ last' = NoReply

\* handler line 34: the loop takes the next record of event["Records"].
WcRecord ==
    /\ wc.pc = "loop"
    /\ wc.batch # <<>>
    /\ wc.i < wc.n
    /\ \E deser \in {"ok", "raise"}, query \in {"ok", "raise"} :
          wc' = widget_change_record(wc, wc.batch[wc.i + 1], deser, query)
    /\ UNCHANGED <<connections, widgets, transport, now, stream, inv, tc>>
    /\ last' = NoReply

\* The feed is at-least-once and carries every edit of the widget table: the
\* handler is invoked with a batch of n records that the model draws as the
\* loop reaches them.
WcFeed(n) ==
    /\ wc.pc = "idle"
    /\ wc' = [IdleWc EXCEPT !.pc = "loop", !.n = n]
    /\ UNCHANGED <<connections, widgets, transport, now, stream, inv, tc>>
    /\ last' = NoReply

WcFeedRecord(record) ==
    /\ wc.pc = "loop"
    /\ wc.batch = <<>>
    /\ wc.i < wc.n
    /\ \E deser \in {"ok", "raise"}, query \in {"ok", "raise"} :
          wc' = widget_change_record(wc, record, deser, query)
    /\ UNCHANGED <<connections, widgets, transport, now, stream, inv, tc>>
    /\ last' = NoReply

\* remove_connection, lines 179-183.
remove_connection(table, c) == delete_item(table, c)

\* broadcast_to_connections lines 164-176 for one recipient: the Connection
\* Store after the post answered with outcome.
broadcast_store(table, c, outcome) ==
    IF outcome = "gone" THEN remove_connection(table, c) ELSE table

\* broadcast_to_connections lines 164-176 and handle_widget_change lines
\* 89-115: the handler's locals after the post of the message in hand to c
\* answered with outcome.
broadcast_next(w, c, outcome) ==
    LET posted == [w EXCEPT !.tried = @ \cup {<<w.kinds[w.k], c>>},
                            !.gone = IF outcome = "gone" THEN @ \cup {c} ELSE @,
                            !.todo = @ \ {c}]
    IN  IF outcome = "exception" THEN record_raised(posted)
        ELSE IF posted.todo # {} THEN posted
        ELSE IF w.k < Len(w.kinds)
        THEN [posted EXCEPT !.k = @ + 1, !.todo = w.connections]
        ELSE record_done(posted)

WcSend ==
    /\ wc.pc = "broadcast"
    /\ \E c \in wc.todo : \E outcome \in RelayOutcomes(c) :
          /\ connections' = broadcast_store(connections, c, outcome)
          /\ wc' = broadcast_next(wc, c, outcome)
    /\ UNCHANGED <<widgets, transport, now, stream, inv, tc>>
    /\ last' = NoReply

\* The handler has gone through event["Records"] and returns.
WcReturn ==
    /\ wc.pc = "loop"
    /\ wc.i = wc.n
    /\ wc' = IdleWc
    /\ UNCHANGED <<connections, widgets, transport, now, stream, inv, tc>>
    /\ last' = NoReply


\* ------------------------------------------------------------------ task_change.py
\* The locals of one task_change.handler invocation: n records in the event,
\* i of them handled; connections, tried and gone describe the fan-out of the
\* record in hand (or of the one handled last).
IdleTc == [pc |-> "idle", n |-> 0, i |-> 0, connections |-> {}, todo |-> {},
           tried |-> {}, gone |-> {}, errors |-> {}]

\* find_connections_for_user, lines 87-97.
find_connections_for_user(user_id) ==
    {c \in ConnIds : connections[c].exists /\ connections[c].user_id = user_id}

\* handler lines 32-38 and handle_task_change lines 42-59 for one record of a
\* task owned by user_id: the recipients of its TASK_UPDATE.
task_change_plan(event_name, user_id, deser, query) ==
    LET nothing == [connections |-> {}, raised |-> FALSE]
    IN  IF event_name \notin {"MODIFY", "INSERT"} THEN nothing
        ELSE IF deser = "raise" THEN [nothing EXCEPT !.raised = TRUE]
        ELSE IF user_id = None THEN nothing
        ELSE IF query = "raise" THEN nothing
        ELSE [connections |-> find_connections_for_user(user_id), raised |-> FALSE]

\* The task table's stream hands a batch of n records to the handler.
TcInvoke ==
    /\ tc.pc = "idle"
    /\ \E n \in 1..MaxBatch : tc' = [IdleTc EXCEPT !.pc = "loop", !.n = n]
    /\ UNCHANGED <<connections, widgets, transport, now, stream, inv, wc>>
    /\ last' = NoReply

\* handler, lines 31-39, up to the first post of the next record.
TcRecord ==
    /\ tc.pc = "loop"
    /\ tc.i < tc.n
    /\ \E event_name \in {"INSERT", "MODIFY", "REMOVE"}, user_id \in Users \cup {None},
          deser \in {"ok", "raise"}, query \in {"ok", "raise"} :
          LET plan == task_change_plan(event_name, user_id, deser, query)
              t == [tc EXCEPT !.connections = plan.connections,
                              !.tried = {}, !.gone = {}]
          IN  tc' = IF plan.raised THEN record_raised(t)
                    ELSE IF plan.connections = {} THEN record_done(t)
                    ELSE [t EXCEPT !.pc = "broadcast", !.todo = plan.connections]
    /\ UNCHANGED <<connections, widgets, transport, now, stream, inv, wc>>
    /\ last' = NoReply

\* handle_task_change lines 67-84: the handler's locals after the post of the
\* TASK_UPDATE to c answered with outcome.
task_send_next(t, c, outcome) ==
    LET posted == [t EXCEPT !.tried = @ \cup {c},
                            !.gone = IF outcome = "gone" THEN @ \cup {c} ELSE @,
                            !.todo = @ \ {c}]
    IN  IF outcome = "exception" THEN record_raised(posted)
        ELSE IF posted.todo # {} THEN posted
        ELSE record_done(posted)

TcSend ==
    /\ tc.pc = "broadcast"
    /\ \E c \in tc.todo : \E outcome \in RelayOutcomes(c) :
          /\ connections' = broadcast_store(connections, c, outcome)
          /\ tc' = task_send_next(tc, c, outcome)
    /\ UNCHANGED <<widgets, transport, now, stream, inv, wc>>
    /\ last' = NoReply

TcReturn ==
    /\ tc.pc = "loop"
    /\ tc.i = tc.n
    /\ tc' = IdleTc
    /\ UNCHANGED <<connections, widgets, transport, now, stream, inv, wc>>
    /\ last' = NoReply

\* ------------------------------------------------------------------ specification
Init ==
    /\ connections = [c \in ConnIds |-> NoConnection]
    /\ widgets = [w \in WidgetIds |-> NoWidget]
    /\ transport = [c \in ConnIds |-> "fresh"]
    /\ now = 0
    /\ stream = <<>>
    /\ inv = [c \in ConnIds |-> IdleInv]
    /\ last = NoReply
    /\ wc = IdleWc
    /\ tc = IdleTc

\* Handler invocations run one at a time in the specifications below; the
\* client, the relay, the CRUD surface and the clock act between their steps.
Serial == InProgress = 0

SpecConns == {"c1", "c2"}

\* Subscriptions: connection lifecycle, WIDGET_SUBSCRIBE and
\* WIDGET_UNSUBSCRIBE, widgets that come and go.
SubMessages == {m \in Messages : m.type # "WIDGET_ACTION"}

Next ==
    \/ \E c \in SpecConns, token \in Tokens : Connect(c, token)
    \/ \E c \in SpecConns : Close(c)
    \/ \E c \in SpecConns : Disconnect(c)
    \/ \E c \in SpecConns, message \in SubMessages : Serial /\ Receive(c, message)
    \/ \E c \in SpecConns : handle_subscribe(c)
    \/ \E c \in SpecConns : subscribe_update(c)
    \/ \E c \in SpecConns : subscribe_send(c)
    \/ \E c \in SpecConns : handle_unsubscribe(c)
    \/ \E c \in SpecConns : unknown_message(c)
    \/ \E w \in WidgetIds : CreateWidget(w, 1)
    \/ \E w \in WidgetIds : DeleteWidget(w)
    \/ Serial /\ WcInvoke
    \/ WcRecord
    \/ WcSend
    \/ WcReturn

Spec == Init /\ [][Next]_vars

\* Actions: connection lifecycle, WIDGET_ACTION, the clock, widgets that come
\* and go.
ActMessages == {m \in Messages : m.type = "WIDGET_ACTION"}

\* One connection at a time suffices to settle who may act.
ActConns == {"c1"}

NextAct ==
    \/ \E c \in ActConns, token \in Tokens : Connect(c, token)
    \/ \E c \in ActConns : Close(c)
    \/ \E c \in ActConns : Disconnect(c)
    \/ \E c \in ActConns, message \in ActMessages : Serial /\ Receive(c, message)
    \/ \E c \in ActConns : handle_action(c)
    \/ \E c \in ActConns : action_update(c)
    \/ \E c \in ActConns : action_send(c)
    \/ \E c \in ActConns : action_error(c)
    \/ \E w \in WidgetIds, d \in Durations : CreateWidget(w, d)
    \/ Tick
    \/ Serial /\ WcInvoke
    \/ WcRecord
    \/ WcSend
    \/ WcReturn

SpecAct == Init /\ [][NextAct]_vars

\* ------------------------------------------------------------------ the mutation feeds
\* The records the widget feed may carry: an insert, a modify that changes
\* config, state, both or neither, a remove, and the insert of an item that
\* update_item created from a key alone.
FeedRecords ==
    {stream_record(NoWidget, WidgetItem(w, 1, 1)) : w \in WidgetIds}
    \cup {stream_record(WidgetItem(w, 1, 1), WidgetItem(w, d, dl)) :
            w \in WidgetIds, d \in Durations, dl \in Durations}
    \cup {stream_record(WidgetItem(w, 1, 1), NoWidget) : w \in WidgetIds}
    \cup {stream_record(NoWidget, set_state(NoWidget, "w1", InitialState(1)))}

\* Both widgets exist and the stream is drained.
InitFeed ==
    /\ connections = [c \in ConnIds |-> NoConnection]
    /\ widgets = [w \in WidgetIds |-> WidgetItem(w, 1, 1)]
    /\ transport = [c \in ConnIds |-> "fresh"]
    /\ now = 0
    /\ stream = <<>>
    /\ inv = [c \in ConnIds |-> IdleInv]
    /\ last = NoReply
    /\ wc = IdleWc
    /\ tc = IdleTc

FeedTokens == {t \in Tokens : t.kind \in {"jwt", "uuid"}}
FeedMessages == {m \in SubMessages : m.widgetId # None}

\* Fan-out: connections of both tiers subscribe and go away while the two
\* feed consumers dispatch widget and task mutations.
NextFeed ==
    \/ \E c \in SpecConns, token \in FeedTokens : Connect(c, token)
    \/ \E c \in SpecConns : Close(c)
    \/ \E c \in SpecConns : Disconnect(c)
    \/ \E c \in SpecConns, message \in FeedMessages : Serial /\ Receive(c, message)
    \/ \E c \in SpecConns : handle_subscribe(c)
    \/ \E c \in SpecConns : subscribe_update(c)
    \/ \E c \in SpecConns : subscribe_send(c)
    \/ \E c \in SpecConns : handle_unsubscribe(c)
    \/ \E n \in 1..MaxBatch : Serial /\ WcFeed(n)
    \/ \E record \in FeedRecords : WcFeedRecord(record)
    \/ WcSend
    \/ WcReturn
    \/ Serial /\ TcInvoke
    \/ TcRecord
    \/ TcSend
    \/ TcReturn

SpecFeed == InitFeed /\ [][NextFeed]_vars

\* Fan-out among three connections: they connect with tokens of either tier
\* and go away while the two feed consumers dispatch.  WidgetAccess
\* connections receive their widget's updates without subscribing.
FanTokens == {t \in FeedTokens : t.of \in {"u1", "w1"}}

NextFan ==
    \/ \E c \in ConnIds, token \in FanTokens : Connect(c, token)
    \/ \E c \in ConnIds : Close(c)
    \/ \E c \in ConnIds : Disconnect(c)
    \/ \E n \in 1..MaxBatch : Serial /\ WcFeed(n)
    \/ \E record \in FeedRecords : WcFeedRecord(record)
    \/ WcSend
    \/ WcReturn
    \/ Serial /\ TcInvoke
    \/ TcRecord
    \/ TcSend
    \/ TcReturn

SpecFan == InitFeed /\ [][NextFan]_vars

\* ------------------------------------------------------------------ feed order
\* Widget w1 was created and then edited, and both stream records wait for
\* the consumer.
InitOrder ==
    /\ connections = [c \in ConnIds |-> NoConnection]
    /\ widgets = [w \in WidgetIds |->
                    IF w = "w1" THEN WidgetItem(w, 2, 1) ELSE NoWidget]
    /\ transport = [c \in ConnIds |-> "fresh"]
    /\ now = 0
    /\ stream = <<stream_record(NoWidget, WidgetItem("w1", 1, 1)),
                  stream_record(WidgetItem("w1", 1, 1), WidgetItem("w1", 2, 1))>>
    /\ inv = [c \in ConnIds |-> IdleInv]
    /\ last = NoReply
    /\ wc = IdleWc
    /\ tc = IdleTc

\* Successive edits of one widget reach the consumer in batches of one or
\* more records while viewers of both tiers come and go.
NextOrder ==
    \/ \E c \in SpecConns, token \in FanTokens : Connect(c, token)
    \/ \E c \in SpecConns : Close(c)
    \/ \E c \in SpecConns : Disconnect(c)
    \/ \E d \in Durations : UpdateWidget("w1", d)
    \/ Serial /\ WcInvoke
    \/ WcRecord
    \/ WcSend
    \/ WcReturn

SpecOrder == InitOrder /\ [][NextOrder]_vars

\* ------------------------------------------------------------------ connect retried
RetryConns == {"c1"}

\* A connection subscribes and unsubscribes while its $connect event is
\* handled again.
NextRetry ==
    \/ \E c \in RetryConns, token \in FeedTokens : Connect(c, token)
    \/ \E c \in RetryConns, authorizer \in AuthContexts : ConnectRetry(c, authorizer)
    \/ \E c \in RetryConns : Close(c)
    \/ \E c \in RetryConns : Disconnect(c)
    \/ \E c \in RetryConns, message \in FeedMessages : Serial /\ Receive(c, message)
    \/ \E c \in RetryConns : handle_subscribe(c)
    \/ \E c \in RetryConns : subscribe_update(c)
    \/ \E c \in RetryConns : subscribe_send(c)
    \/ \E c \in RetryConns : handle_unsubscribe(c)
    \/ \E w \in WidgetIds : CreateWidget(w, 1)

SpecRetry == Init /\ [][NextRetry]_vars

\* ------------------------------------------------------------------ the action engine alone
\* Countdown states with last_tick_timestamp present iff enabled: running,
\* paused, expired (nothing left), with or without extra fields.
EngineStates ==
    {st \in [enabled : BOOLEAN, duration_left : 0..MaxLeft,
             last_tick_timestamp : Times \cup {NoTick}, extra : BOOLEAN] :
        st.enabled <=> st.last_tick_timestamp # NoTick}

\* Widget w1 is a countdown with or without a configured duration, in any of
\* these states.
InitEngine ==
    /\ connections = [c \in ConnIds |-> NoConnection]
    /\ \E d \in Durations \cup {NoDuration}, st \in EngineStates :
          widgets = [w \in WidgetIds |->
                       IF w = "w1" THEN [WidgetItem(w, d, 0) EXCEPT !.state = st]
                       ELSE NoWidget]
    /\ transport = [c \in ConnIds |-> "fresh"]
    /\ now = 0
    /\ stream = <<>>
    /\ inv = [c \in ConnIds |-> IdleInv]
    /\ last = NoReply
    /\ wc = IdleWc
    /\ tc = IdleTc

EngineMessages == {m \in ActMessages : m.widgetId = "w1" /\ m.action # None}

\* handle_action lines 180-199 in one step, for the owner of w1: the action
\* is computed on the stored item and its new state is written if the action
\* succeeded.  inv keeps the message, the item as fetched and the result.
EngineStep(message) ==
    LET widget == widgets["w1"]
        result == action_result(widget, message.action, message.duration, now)
        written == result.success /\ ~update_raises(message)
    IN  /\ widgets' = [widgets EXCEPT !["w1"] =
                         IF written THEN set_state(widget, "w1", result.new_state)
                         ELSE @]
        /\ inv' = [inv EXCEPT !["c1"] = [IdleInv EXCEPT !.message = message,
                                                        !.widget = widget,
                                                        !.success = written,
                                                        !.new_state = result.new_state]]
        /\ UNCHANGED <<connections, transport, now, stream, wc, tc>>
        /\ last' = NoReply

NextEngine ==
    \/ \E message \in EngineMessages : EngineStep(message)
    \/ Tick

SpecEngine == InitEngine /\ [][NextEngine]_vars

\* ------------------------------------------------------------------ concurrent actions
RaceTokens == {[kind |-> "jwt", of |-> "u1"]}

\* resume and set_duration(2) on w1.
RaceMessages ==
    {m \in EngineMessages :
        /\ m.action \in {"resume", "set_duration"}
        /\ m.action = "set_duration" => m.duration = 2
        /\ ~m.float /\ ~m.bool}

\* Two connections of the owner act on countdown w1 at the same time: their
\* handler invocations interleave at every store access.  The clock stands
\* still.
NextRace ==
    \/ \E c \in SpecConns, token \in RaceTokens : Connect(c, token)
    \/ \E c \in SpecConns, message \in RaceMessages : Receive(c, message)
    \/ \E c \in SpecConns : handle_action(c)
    \/ \E c \in SpecConns : action_update(c)
    \/ \E c \in SpecConns : action_send(c)
    \/ WcInvoke
    \/ WcRecord
    \/ WcReturn

SpecRace == InitFeed /\ [][NextRace]_vars

\* ------------------------------------------------------------------ subscribe during a mutation
SubscribeW1 == [NoMessage EXCEPT !.type = "WIDGET_SUBSCRIBE", !.widgetId = "w1"]

\* Connection c1 subscribes to countdown w1 while connection c2, of the same
\* owner, acts on it and the widget-change consumer dispatches: the three
\* handlers interleave at every store and relay access.
NextStale ==
    \/ \E c \in SpecConns, token \in RaceTokens : Connect(c, token)
    \/ Receive("c1", SubscribeW1)
    \/ handle_subscribe("c1")
    \/ subscribe_update("c1")
    \/ subscribe_send("c1")
    \/ \E message \in RaceMessages : Receive("c2", message)
    \/ handle_action("c2")
    \/ action_update("c2")
    \/ action_send("c2")
    \/ WcInvoke
    \/ WcRecord
    \/ WcSend
    \/ WcReturn

SpecStale == InitFeed /\ [][NextStale]_vars

\* ------------------------------------------------------------------ action to broadcast
\* Connection c1 of the owner is open and subscribed to countdown w1,
\* connection c2 is open and bound to w1 by a widget token.
InitLive ==
    /\ connections =
          [c \in ConnIds |->
             IF c = "c1"
             THEN [connect_item([userId |-> "u1", widgetId |-> None,
                                 authType |-> "FullAccess"])
                     EXCEPT !.subscribed_widgets = {"w1"}]
             ELSE IF c = "c2"
             THEN connect_item([userId |-> WidgetOwner("w1"), widgetId |-> "w1",
                                authType |-> "WidgetAccess"])
             ELSE NoConnection]
    /\ widgets = [w \in WidgetIds |-> WidgetItem(w, 1, 1)]
    /\ transport = [c \in ConnIds |-> IF c \in SpecConns THEN "open" ELSE "fresh"]
    /\ now = 0
    /\ stream = <<>>
    /\ inv = [c \in ConnIds |-> IdleInv]
    /\ last = NoReply
    /\ wc = IdleWc
    /\ tc = IdleTc

\* handler line 34 for the next record of the batch, when neither the
\* deserialisation of its images nor the query of the Connection Store
\* raises.
WcRecordDelivered ==
    /\ wc.pc = "loop"
    /\ wc.batch # <<>>
    /\ wc.i < wc.n
    /\ wc' = widget_change_record(wc, wc.batch[wc.i + 1], "ok", "ok")
    /\ UNCHANGED <<connections, widgets, transport, now, stream, inv, tc>>
    /\ last' = NoReply

\* broadcast_to_connections lines 164-176 for one recipient, when the relay
\* accepts the post to an open connection (a closed one is gone).
WcSendAccepted ==
    /\ wc.pc = "broadcast"
    /\ \E c \in wc.todo :
          LET outcome == IF transport[c] = "open" THEN "ok" ELSE "gone"
          IN  /\ connections' = broadcast_store(connections, c, outcome)
              /\ wc' = broadcast_next(wc, c, outcome)
    /\ UNCHANGED <<widgets, transport, now, stream, inv, tc>>
    /\ last' = NoReply

\* Connection c1 acts on w1; the feed hands every stream record to the
\* widget-change consumer, whose reads and posts succeed; c1 and c2 may go
\* away at any time.  The clock stands still.
NextLive ==
    \/ \E message \in RaceMessages : Receive("c1", message)
    \/ handle_action("c1")
    \/ action_update("c1")
    \/ action_send("c1")
    \/ \E c \in SpecConns : Close(c)
    \/ \E c \in SpecConns : Disconnect(c)
    \/ WcInvoke
    \/ WcRecordDelivered
    \/ WcSendAccepted
    \/ WcReturn

\* The event source mapping keeps invoking the consumer while records are
\* pending, and an invocation runs to its end.
SpecLive ==
    /\ InitLive
    /\ [][NextLive]_vars
    /\ WF_vars(WcInvoke)
    /\ WF_vars(WcRecordDelivered)
    /\ WF_vars(WcSendAccepted)
    /\ WF_vars(WcReturn)

\* ------------------------------------------------------------------ media_lambda/main.py
\* A segment path is a sequence of symbols: the text "transcode", the
\* separator "/", a letter and a space.
PathSymbols == {"transcode", "/", "f", " "}
Paths == UNION {[1..n -> PathSymbols] : n \in 0..MaxPath}

\* urllib.parse.quote with its default safe="/": letters and "/" stay, a
\* space becomes %20.
quote(string) ==
    [i \in 1..Len(string) |-> IF string[i] = " " THEN "%20" ELSE string[i]]

\* rewrite_path, lines 445-446.
rewrite_path(path) == quote(<<"/">> \o path)

\* The playlist builders call rewrite_path on a segment's stored path; last
\* holds the call and what it returned.
RewritePath(path) ==
    /\ last' = [path |-> path, url |-> rewrite_path(path)]
    /\ UNCHANGED <<connections, widgets, transport, now, stream, inv, wc, tc>>

InitPath ==
    /\ connections = [c \in ConnIds |-> NoConnection]
    /\ widgets = [w \in WidgetIds |-> NoWidget]
    /\ transport = [c \in ConnIds |-> "fresh"]
    /\ now = 0
    /\ stream = <<>>
    /\ inv = [c \in ConnIds |-> IdleInv]
    /\ last = [path |-> <<>>, url |-> rewrite_path(<<>>)]
    /\ wc = IdleWc
    /\ tc = IdleTc

NextPath == \E path \in Paths : RewritePath(path)

SpecPath == InitPath /\ [][NextPath]_vars

\* ------------------------------------------------------------------ properties
Range(f) == {f[x] : x \in DOMAIN f}

\* The step of message.handler that ran handle_subscribe for c.
SubscribeChecked(c) ==
    /\ inv[c].pc = "routed"
    /\ inv[c].message.type = "WIDGET_SUBSCRIBE"
    /\ inv'[c] # inv[c]

\* C1: a WidgetAccess connection bound to widget W is answered Forbidden when
\* it subscribes to any other widget id, whether or not that widget exists,
\* and its subscriptions never hold anything but W.
C1_OtherWidgetForbidden ==
    /\ \A c \in ConnIds :
          (/\ last.conn = c
           /\ last.type = "WIDGET_SUBSCRIBE"
           /\ last.widgetId # None
           /\ connections[c].exists
           /\ connections[c].authType = "WidgetAccess"
           /\ connections[c].widgetId # last.widgetId)
          => last.status = "403 Forbidden"
    /\ \A c \in ConnIds :
          (connections[c].exists /\ connections[c].authType = "WidgetAccess")
          => connections[c].subscribed_widgets \subseteq {connections[c].widgetId}

\* C2: a step of the WIDGET_ACTION handler changes a widget record only when
\* the acting connection is FullAccess and its user is the widget's owner; no
\* other handler step writes to the Widget Store.
C2_OnlyOwnerActs ==
    [][\A w \in WidgetIds :
         (widgets'[w] # widgets[w] /\ inv' # inv)
         => \E c \in ConnIds :
               /\ inv[c].pc = "action_update"
               /\ inv[c].message.type = "WIDGET_ACTION"
               /\ inv[c].message.widgetId = w
               /\ inv[c].connection.authType = "FullAccess"
               /\ inv[c].widget.exists
               /\ inv[c].connection.user_id = inv[c].widget.user_id
               /\ widgets[w].user_id = inv[c].connection.user_id]_vars

\* A FullAccess owner's action has been written to the widget.
C2_Witness ==
    \E c \in ConnIds :
       /\ inv[c].pc = "action_send"
       /\ inv[c].success
       /\ inv[c].connection.authType = "FullAccess"
       /\ widgets[inv[c].message.widgetId].state = inv[c].new_state
       /\ widgets[inv[c].message.widgetId].state # inv[c].widget.state

\* C3: a WidgetAccess connection is only ever sent messages about the widget
\* it is bound to: no TASK_UPDATE, no update of another widget, no initial
\* state or action response of another widget.
C3_WidgetAccessOnlyItsWidget ==
    \A c \in ConnIds :
       (connections[c].exists /\ connections[c].authType = "WidgetAccess")
       => /\ c \notin tc.tried
          /\ \A pair \in wc.tried :
                pair[2] = c => wc.record.NewImage.id = connections[c].widgetId
          /\ (last.conn = c /\ last.pushed # None)
             => last.widgetId = connections[c].widgetId

\* C4: a FullAccess subscription is accepted only if the widget exists and is
\* owned by the connection's user at the time of the check: a missing widget
\* is answered 404, a widget of another user 403, and in both cases the
\* Connection Store is left as it was; a widget id is added to the
\* subscriptions only after a check that found the widget owned.
C4_FullAccessSubscribe ==
    [][\A c \in ConnIds :
         /\ (/\ SubscribeChecked(c)
             /\ inv[c].connection.authType = "FullAccess"
             /\ inv[c].message.widgetId # None)
            => LET widget == widgets[inv[c].message.widgetId]
               IN  IF ~widget.exists
                   THEN last'.status = "404 Widget not found"
                        /\ connections' = connections
                   ELSE IF widget.user_id # inv[c].connection.user_id
                   THEN last'.status = "403 Forbidden"
                        /\ connections' = connections
                   ELSE inv'[c].pc = "subscribe_update"
                        /\ connections' = connections
         /\ (/\ inv[c].connection.authType = "FullAccess"
             /\ ~(connections'[c].subscribed_widgets
                    \subseteq connections[c].subscribed_widgets))
            => /\ inv[c].pc = "subscribe_update"
               /\ inv[c].widget.exists
               /\ inv[c].widget.user_id = inv[c].connection.user_id
               /\ connections'[c].subscribed_widgets
                    = connections[c].subscribed_widgets
                        \cup {inv[c].message.widgetId}]_vars

\* One FullAccess connection holds a subscription while another has just
\* been refused one and holds none.
C4_Witness ==
    \E c \in ConnIds, d \in ConnIds :
       /\ connections[c].authType = "FullAccess"
       /\ connections[c].subscribed_widgets # {}
       /\ last.conn = d
       /\ last.type = "WIDGET_SUBSCRIBE"
       /\ last.status = "403 Forbidden"
       /\ connections[d].authType = "FullAccess"
       /\ connections[d].subscribed_widgets = {}

\* The recipient set the specification gives for a mutation of widget.
Recipients(widget) ==
    {c \in ConnIds : /\ connections[c].exists
                     /\ connections[c].authType = "FullAccess"
                     /\ connections[c].user_id = widget.user_id
                     /\ widget.id \in connections[c].subscribed_widgets}
    \cup {c \in ConnIds : /\ connections[c].exists
                          /\ connections[c].authType = "WidgetAccess"
                          /\ connections[c].widgetId = widget.id}

\* The step of widget_change.handler that took up the next record.
WidgetRecordTaken == wc.pc = "loop" /\ wc'.pc # "idle" /\ wc' # wc

\* The recipients found for a record that is broadcast are the union of the
\* subscribed FullAccess connections of the widget's owner and the
\* WidgetAccess connections bound to the widget, as the Connection Store
\* holds them at that moment, and posts go to members of it only.
PlannedRecipients ==
    [][/\ (WidgetRecordTaken /\ wc'.pc = "broadcast")
          => /\ wc'.connections = Recipients(wc'.record.NewImage)
             /\ wc'.todo = wc'.connections
       /\ \A pair \in wc'.tried : pair[2] \in wc'.connections]_vars

\* The fan-out of the record in hand has ended after a broadcast was begun.
FanoutEnded == wc.pc = "loop" /\ wc.kinds # <<>>

\* The connections the message of the given kind was posted to.
SentTo(kind) == {pair[2] : pair \in {q \in wc.tried : q[1] = kind}}

\* C5: every message produced by a widget mutation is sent to exactly the
\* FullAccess connections of the widget's owner subscribed to the widget
\* together with the WidgetAccess connections bound to it: nobody outside
\* that set is sent it and nobody inside is skipped.
C5_ExactRecipients ==
    /\ PlannedRecipients
    /\ [](FanoutEnded
          => \A pair \in wc.tried : SentTo(pair[1]) = wc.connections)

\* The messages planned for a record that is broadcast: WIDGET_CONFIG_UPDATE
\* exactly when it is an insert or its configuration differs from the old
\* image, WIDGET_STATE_UPDATE exactly when it is an insert or its state
\* differs; a modification that changes neither is not broadcast.
PlannedKinds ==
    [][/\ WidgetRecordTaken
          => LET record == wc'.record
                 insert == record.eventName = "INSERT"
                 config == insert \/ record.NewImage.config # record.OldImage.config
                 state == insert \/ record.NewImage.state # record.OldImage.state
             IN  /\ wc'.pc = "broadcast"
                    => /\ "WIDGET_CONFIG_UPDATE" \in Range(wc'.kinds) <=> config
                       /\ "WIDGET_STATE_UPDATE" \in Range(wc'.kinds) <=> state
                 /\ (~config /\ ~state) => wc'.pc = "loop" /\ wc'.kinds = <<>>
       /\ \A pair \in wc'.tried : pair[1] \in Range(wc'.kinds)]_vars

\* C6: for a widget mutation with recipients, a WIDGET_CONFIG_UPDATE is sent
\* iff it is an insert or the configuration differs, and independently a
\* WIDGET_STATE_UPDATE is sent iff it is an insert or the state differs.
C6_KindsSent ==
    /\ PlannedKinds
    /\ [](FanoutEnded => {pair[1] : pair \in wc.tried} = Range(wc.kinds))

\* The step on which a recipient is reported gone removes that connection's
\* record and no other, and leaves the recipients still to come pending for
\* the same message.
GoneStep ==
    [][/\ \A c \in wc'.gone \ wc.gone :
             /\ connections' = delete_item(connections, c)
             /\ wc'.errors = wc.errors
             /\ wc.todo \ {c} # {}
                => wc'.pc = "broadcast" /\ wc'.k = wc.k /\ wc'.todo = wc.todo \ {c}
       /\ \A c \in tc'.gone \ tc.gone :
             /\ connections' = delete_item(connections, c)
             /\ tc'.errors = tc.errors
             /\ tc.todo \ {c} # {}
                => tc'.pc = "broadcast" /\ tc'.todo = tc.todo \ {c}]_vars

\* C7: when a recipient is reported gone during a fan-out, its Connection
\* Store record and no other is removed, and every other recipient of that
\* fan-out is still sent the message.
C7_GoneOthersSent ==
    /\ GoneStep
    /\ [](FanoutEnded
          => \A pair \in wc.tried :
                pair[2] \in wc.gone => SentTo(pair[1]) = wc.connections)
    /\ []((tc.pc = "loop" /\ tc.gone # {}) => tc.tried = tc.connections)

\* C8: once a recipient has been reported gone, nothing further is posted to
\* it while the same event is handled, the second message of the event
\* included.
C8_NoPostAfterGone ==
    [][/\ \A pair \in wc'.tried \ wc.tried : pair[2] \notin wc.gone
       /\ \A c \in tc'.tried \ tc.tried : c \notin tc.gone]_vars

\* C9: a delivery failure for one recipient (gone, relay error, or any other
\* exception) keeps neither the later recipients nor the second message of
\* the same event from being attempted: a record whose fan-out has ended
\* had every one of its messages posted to every one of its recipients.
C9_FailureIsolated ==
    /\ (wc.pc = "loop" /\ wc.kinds # <<>>)
       => wc.tried = Range(wc.kinds) \X wc.connections
    /\ tc.pc = "loop" => tc.tried = tc.connections

\* C10: both feed consumers take the records of a batch one after the other,
\* go on to the next record after a record has failed, and return only when
\* every record of the batch has been handled.
C10_EveryRecord ==
    [][/\ (wc.pc # "idle" /\ wc'.pc = "idle") => (wc.pc = "loop" /\ wc.i = wc.n)
       /\ (tc.pc # "idle" /\ tc'.pc = "idle") => (tc.pc = "loop" /\ tc.i = tc.n)
       /\ (wc'.pc # "idle" /\ wc'.i # wc.i) => (wc'.i = wc.i + 1 /\ wc'.i <= wc.n)
       /\ (tc'.pc # "idle" /\ tc'.i # tc.i) => (tc'.i = tc.i + 1 /\ tc'.i <= tc.n)
       /\ wc'.errors \subseteq 1..wc'.i
       /\ tc'.errors \subseteq 1..tc'.i
       /\ wc'.pc = "broadcast" => (wc'.i < wc'.n /\ wc'.todo # {})
       /\ tc'.pc = "broadcast" => (tc'.i < tc'.n /\ tc'.todo # {})]_vars

\* The first record of a batch failed and the second was broadcast all the
\* same.
C10_Witness ==
    /\ wc.pc = "loop"
    /\ wc.n = 2
    /\ wc.i = 2
    /\ wc.errors = {1}
    /\ wc.tried # {}

\* The stored state of the countdown w1.
Countdown == widgets["w1"].state

\* C17: from a countdown state with last_tick_timestamp present iff enabled,
\* any sequence of start, pause, resume, reset and set_duration, accepted or
\* rejected, at any times, leaves the stored state with last_tick_timestamp
\* present iff enabled; a countdown that is not enabled has no timestamp.
C17_TickIffEnabled ==
    /\ Countdown.enabled <=> Countdown.last_tick_timestamp # NoTick
    /\ inv["c1"].message.action \in CountdownActions
       => (inv["c1"].new_state.enabled
             <=> inv["c1"].new_state.last_tick_timestamp # NoTick)
    /\ \A message \in EngineMessages :
          LET result == handle_countdown_action(widgets["w1"], message.action,
                                                message.duration, now)
          IN  result.new_state.enabled
                <=> result.new_state.last_tick_timestamp # NoTick

\* A paused countdown was resumed at a later time and is stored as running.
C17_Witness ==
    /\ inv["c1"].message.action = "resume"
    /\ ~inv["c1"].widget.state.enabled
    /\ inv["c1"].success
    /\ Countdown.enabled
    /\ Countdown.last_tick_timestamp > 0

\* The step of message.handler in which handle_action for c fetched the
\* countdown it may act on and computed the action.
ActionComputed(c) ==
    /\ inv[c].pc = "routed"
    /\ inv[c].message.type = "WIDGET_ACTION"
    /\ inv'[c].pc \notin {"routed", "idle"}
    /\ inv'[c].widget.type = "countdown"

\* On plain Python numbers the function computes what the specification
\* says: start at now sets the configured duration and the timestamp, a
\* pause d later leaves max(0, D - d), a pause of a paused countdown leaves
\* duration_left as it is.
StartPauseOnNumbers ==
    LET config == widgets["w1"].config
        D == config_duration(config)
        started == countdown_start(Countdown, config, now)
    IN  /\ started.success
        /\ started.new_state = [Countdown EXCEPT !.enabled = TRUE,
                                                 !.duration_left = D,
                                                 !.last_tick_timestamp = now]
        /\ \A d \in 0..MaxNow :
              LET paused == countdown_pause(started.new_state, now + d)
              IN  /\ paused.success
                  /\ paused.new_state =
                       [started.new_state EXCEPT !.enabled = FALSE,
                                                 !.duration_left = Max(0, D - d),
                                                 !.last_tick_timestamp = NoTick]
        /\ ~Countdown.enabled
           => countdown_pause(Countdown, now).new_state.duration_left
                = Countdown.duration_left

\* C18: start at t0 gives {enabled, duration_left = D, last_tick_timestamp =
\* t0} whatever the state before; a pause d >= 0 later gives {not enabled,
\* duration_left = max(0, duration_left - d), no timestamp}; a pause of a
\* paused countdown leaves duration_left unchanged.
C18_StartPause ==
    [][\A c \in ConnIds :
         ActionComputed(c)
         => LET st == inv'[c].widget.state
                D == config_duration(inv'[c].widget.config)
                action == inv[c].message.action
            IN  /\ action = "start"
                   => /\ inv'[c].pc = "action_update"
                      /\ inv'[c].new_state = [st EXCEPT !.enabled = TRUE,
                                                        !.duration_left = D,
                                                        !.last_tick_timestamp = now]
                /\ (action = "pause" /\ st.enabled
                      /\ st.last_tick_timestamp # NoTick
                      /\ st.last_tick_timestamp <= now)
                   => /\ inv'[c].pc = "action_update"
                      /\ inv'[c].new_state =
                           [st EXCEPT !.enabled = FALSE,
                                      !.duration_left =
                                         Max(0, @ - (now - st.last_tick_timestamp)),
                                      !.last_tick_timestamp = NoTick]
                /\ (action = "pause" /\ ~st.enabled)
                   => /\ inv'[c].pc = "action_update"
                      /\ inv'[c].new_state.duration_left = st.duration_left]_vars

\* The state set_duration(x) is to leave behind state st at time t.
AfterSetDuration(st, x, t) ==
    IF st.enabled
    THEN [st EXCEPT !.duration_left = x, !.last_tick_timestamp = t]
    ELSE [st EXCEPT !.duration_left = x]

\* The function computes what the specification says for every state and
\* every non-negative x, and a second set_duration(x) at the same time
\* changes nothing.
SetDurationOnNumbers ==
    \A x \in Durations \cup {0} :
       LET once == countdown_set_duration(Countdown, x, now)
           twice == countdown_set_duration(once.new_state, x, now)
       IN  /\ once.success
           /\ once.new_state = AfterSetDuration(Countdown, x, now)
           /\ twice.success
           /\ twice.new_state = once.new_state

\* C19: set_duration(x) with x a non-negative number sets duration_left = x
\* in every countdown state; an enabled countdown also gets
\* last_tick_timestamp = now and stays enabled, a countdown that is not
\* enabled keeps enabled and last_tick_timestamp as they were.
C19_SetDuration ==
    [][\A c \in ConnIds :
         /\ (/\ ActionComputed(c)
             /\ inv[c].message.action = "set_duration"
             /\ inv[c].message.duration >= 0)
            => /\ inv'[c].pc = "action_update"
               /\ inv'[c].new_state =
                    AfterSetDuration(inv'[c].widget.state,
                                     inv[c].message.duration, now)
         /\ (/\ inv[c].pc = "action_update"
             /\ inv[c].message.action = "set_duration"
             /\ inv'[c] # inv[c])
            => widgets'[inv[c].message.widgetId].state = inv[c].new_state]_vars

\* The state reset is to leave behind on a countdown configured with config.
AfterReset(config) ==
    [enabled |-> FALSE, duration_left |-> config_duration(config),
     last_tick_timestamp |-> NoTick, extra |-> FALSE]

\* C20: from every countdown state (running, paused, expired, with extra
\* fields) reset succeeds and leaves exactly enabled = false, duration_left =
\* config.duration and no timestamp, and a second reset changes nothing.
C20_Reset ==
    /\ inv["c1"].message.action = "reset"
       => /\ inv["c1"].success
          /\ inv["c1"].new_state = AfterReset(inv["c1"].widget.config)
          /\ Countdown = inv["c1"].new_state
    /\ LET config == widgets["w1"].config
           once == countdown_reset(Countdown, config)
           twice == countdown_reset(once.new_state, config)
       IN  /\ once.success
           /\ once.new_state = AfterReset(config)
           /\ twice = once

\* A running countdown with extra fields was reset.
C20_Witness ==
    /\ inv["c1"].message.action = "reset"
    /\ inv["c1"].widget.state.enabled
    /\ inv["c1"].widget.state.extra
    /\ inv["c1"].widget.state.duration_left = 0
    /\ Countdown = AfterReset(widgets["w1"].config)

\* ------------------------------------------------------------------ C11
\* A post of the widget-change consumer happens in this step.
WcPosts == wc.pc = "broadcast" /\ wc' # wc

\* C11: the mutation events of a widget reach every connection in feed
\* order.  The consumer takes the oldest records off the stream as its
\* batch, every post it makes is for the oldest record of the batch it has
\* not finished, it finishes records one after the other and never goes
\* back, and the store's writes join the stream at its end: a message for
\* an event is never posted after a message for a later event of the feed.
C11_FeedOrder ==
    [][/\ WcPosts => /\ wc.i < Len(wc.batch)
                     /\ wc.record = wc.batch[wc.i + 1]
       /\ (wc.pc # "idle" /\ wc'.pc # "idle")
             => /\ wc'.batch = wc.batch
                /\ wc'.i \in {wc.i, wc.i + 1}
                /\ \E k \in 0..1 : Len(stream') = Len(stream) + k
                                   /\ SubSeq(stream', 1, Len(stream)) = stream
       /\ (wc.pc = "idle" /\ wc'.pc # "idle")
             => /\ wc'.i = 0
                /\ wc'.batch \o stream' = stream
       /\ (wc.pc = "idle" /\ wc'.pc = "idle")
             => \E k \in 0..1 : Len(stream') = Len(stream) + k
                                /\ SubSeq(stream', 1, Len(stream)) = stream
      ]_vars

\* The consumer posts the message of the second of two events of one widget
\* after it has handled the first.
C11_Witness ==
    /\ wc.pc = "broadcast"
    /\ Len(wc.batch) = 2
    /\ wc.batch[1].NewImage.id = wc.batch[2].NewImage.id
    /\ wc.batch[1] # wc.batch[2]
    /\ wc.i = 1
    /\ wc.record = wc.batch[2]
    /\ wc.tried # {}
    /\ 1 \notin wc.errors

\* ------------------------------------------------------------------ C12
\* A subscribe answered 200 went through the one post of the initial state
\* (whatever the relay made of it).
SubscribePostAttempted ==
    (last.type = "WIDGET_SUBSCRIBE" /\ last.status = "200 Subscribed")
    => last.pushed = "WIDGET_INITIAL_STATE"

\* C12: a WIDGET_SUBSCRIBE is answered as successful only after the
\* WIDGET_INITIAL_STATE message has been pushed to the subscribing
\* connection: when the handler returns 200 to a connection that is still
\* open, the relay has accepted the initial state.
C12_InitialStatePushed ==
    \A c \in ConnIds :
       (/\ last.conn = c
        /\ last.type = "WIDGET_SUBSCRIBE"
        /\ last.status = "200 Subscribed"
        /\ transport[c] = "open")
       => /\ last.pushed = "WIDGET_INITIAL_STATE"
          /\ last.outcome = "ok"

\* ------------------------------------------------------------------ C13
\* The handler of a WIDGET_SUBSCRIBE of connection c takes a step.
SubscribeStep(c) ==
    /\ inv[c].message.type = "WIDGET_SUBSCRIBE"
    /\ inv'[c] # inv[c]

\* C13: a subscribe applied when the connection's record no longer exists
\* fails with NotFound and leaves the Connection Store unchanged, however
\* disconnect and reaping interleave with it: a frame that arrives for a
\* missing record is answered 404, and no later step of the handler, taken
\* while the record is missing, writes to the Connection Store or reports
\* the subscription as made.
C13_SubscribeMissingConnection ==
    [][\A c \in ConnIds :
         ~connections[c].exists
         => /\ (/\ inv[c].pc = "idle"
                 /\ last'.conn = c
                 /\ last'.type = "WIDGET_SUBSCRIBE")
               => /\ last'.status = "404 Connection not found"
                  /\ connections' = connections
            /\ SubscribeStep(c)
               => /\ connections' = connections
                  /\ last'.status # "200 Subscribed"]_vars

\* ------------------------------------------------------------------ C14
\* C14: create(connectionId, authContext) is idempotent on retries: when
\* the $connect event of a connection is handled again, the connection's
\* record (authType, userId, widgetId, subscription set) is as it was
\* before, also when a subscribe was accepted in between.
C14_ConnectIdempotent ==
    [][\A c \in ConnIds :
         (/\ last'.conn = c
          /\ last'.status = "200 Connected"
          /\ connections[c].exists)
         => connections'[c] = connections[c]]_vars

\* The retry keeps tier and identity.
RetryKeepsIdentity ==
    [][\A c \in ConnIds :
         (/\ last'.conn = c
          /\ last'.status = "200 Connected"
          /\ connections[c].exists)
         => /\ connections'[c].exists
            /\ connections'[c].authType = connections[c].authType
            /\ connections'[c].user_id = connections[c].user_id
            /\ connections'[c].widgetId = connections[c].widgetId]_vars

\* ------------------------------------------------------------------ C15
\* The decision the claim gives for a token, with the Widget Store as it is.
Decision(token) ==
    LET bound == {w \in WidgetIds : /\ widgets[w].exists
                                    /\ widgets[w].user_id # None
                                    /\ AccessToken(w) = token}
    IN  IF token.kind = "jwt"
        THEN [effect |-> "Allow",
              context |-> [userId |-> token.of, widgetId |-> None,
                           authType |-> "FullAccess"]]
        ELSE IF token.kind = "uuid" /\ bound # {}
        THEN LET w == CHOOSE x \in bound : TRUE
             IN  [effect |-> "Allow",
                  context |-> [userId |-> widgets[w].user_id, widgetId |-> w,
                               authType |-> "WidgetAccess"]]
        ELSE [effect |-> "Deny", context |-> NoAuth]

\* C15: the connect-time decision is a function of the token: Allow
\* FullAccess when the token verifies as a JWT; otherwise Allow WidgetAccess
\* bound to w when the token has the UUID shape and is w's access_token;
\* otherwise Deny (a missing token, and one that fails both, included).  A
\* connection record comes into being at connect only from an Allow, and
\* carries that decision's tier and identity.
C15_ConnectDecision ==
    /\ [](\A token \in Tokens : authorizer_handler(token) = Decision(token))
    /\ [][\A c \in ConnIds :
            (transport[c] = "fresh" /\ connections'[c] # connections[c])
            => \E token \in Tokens :
                  /\ Decision(token).effect = "Allow"
                  /\ connections'[c] = connect_item(Decision(token).context)
                  /\ transport'[c] = "open"]_vars

\* One connection was allowed as FullAccess and another as WidgetAccess.
C15_Witness ==
    \E c, d \in ConnIds :
       /\ connections[c].exists /\ connections[c].authType = "FullAccess"
       /\ connections[c].user_id \in Users
       /\ connections[d].exists /\ connections[d].authType = "WidgetAccess"
       /\ connections[d].widgetId \in WidgetIds
       /\ widgets[connections[d].widgetId].exists

\* ------------------------------------------------------------------ C16
\* C16: every record of the Connection Store carries its tier and the
\* identity that goes with it: a WidgetAccess record its widgetId, a
\* FullAccess record its userId; no record is without tier and identity
\* (such a record has no expiry either: only connect sets one).
C16_TierIdentity ==
    \A c \in ConnIds :
       connections[c].exists
       => /\ connections[c].authType \in {"FullAccess", "WidgetAccess"}
          /\ connections[c].authType = "WidgetAccess"
                => connections[c].widgetId \in WidgetIds
          /\ connections[c].authType = "FullAccess"
                => connections[c].user_id \in Users

\* ------------------------------------------------------------------ C21
\* The time a countdown in state st has left at time t.
Remaining(st, t) ==
    IF st.enabled /\ st.last_tick_timestamp # NoTick
    THEN Max(0, st.duration_left - (t - st.last_tick_timestamp))
    ELSE st.duration_left

\* handle_action lines 180-199 for an action without payload: the item
\* stored after the action was handled at time t on stored item widget.
Applied(widget, action, t) ==
    LET result == action_result(widget, action, 0, t)
    IN  IF result.success THEN set_state(widget, "w1", result.new_state)
        ELSE widget

\* On plain Python numbers pause and then resume at the same time leave
\* the remaining time, the countdown enabled and the timestamp at now.
PauseResumeOnNumbers ==
    Countdown.last_tick_timestamp <= now
    => LET paused == countdown_pause(Countdown, now)
           resumed == countdown_resume(paused.new_state, now)
       IN  /\ paused.success /\ resumed.success
           /\ resumed.new_state =
                [Countdown EXCEPT !.enabled = TRUE,
                                  !.duration_left = Remaining(Countdown, now),
                                  !.last_tick_timestamp = now]

\* C21: for every countdown state with remaining time r at the moment of
\* pausing, pause followed by resume with no time between them leaves
\* duration_left = r and the countdown enabled with last_tick_timestamp =
\* now.
C21_PauseResume ==
    Countdown.last_tick_timestamp <= now
    => Applied(Applied(widgets["w1"], "pause", now), "resume", now).state
         = [Countdown EXCEPT !.enabled = TRUE,
                             !.duration_left = Remaining(Countdown, now),
                             !.last_tick_timestamp = now]

\* ------------------------------------------------------------------ C22
\* The transition asked for by message on the fetched item widget is to
\* fail: the type is not supported, the action is unknown, or set_duration's
\* payload is not a non-negative number.
TransitionFails(message, widget) ==
    \/ widget.type # "countdown"
    \/ message.action \notin CountdownActions
    \/ /\ message.action = "set_duration"
       /\ \/ message.duration = InvalidDuration
          \/ message.duration < 0
          \/ message.bool

\* A transition that the engine refuses writes nothing.
RefusedWritesNothing ==
    [][\A c \in ConnIds :
         (/\ inv[c].message.type = "WIDGET_ACTION"
          /\ inv[c].pc \in {"action_update", "action_send", "action_error"}
          /\ ~inv[c].success
          /\ inv'[c] # inv[c])
         => (widgets' = widgets /\ stream' = stream)]_vars

\* C22: a WIDGET_ACTION whose transition fails (unsupported widget type,
\* unknown action, set_duration with a payload that is not a non-negative
\* number) leaves the widget's stored record unchanged: no step of its
\* handler writes to the Widget Store.
C22_FailedActionNoWrite ==
    [][\A c \in ConnIds :
         (/\ inv[c].message.type = "WIDGET_ACTION"
          /\ inv[c].pc \in {"action_update", "action_send", "action_error"}
          /\ TransitionFails(inv[c].message, inv[c].widget)
          /\ inv'[c] # inv[c])
         => (widgets' = widgets /\ stream' = stream)]_vars

\* ------------------------------------------------------------------ C23
\* The statuses with which handle_action refuses an action.
RefusalStatuses ==
    {"403 Read-only access", "403 Forbidden", "404 Widget not found",
     "400 Missing widgetId or action", "400 Action executed"}

\* A transition that the engine refuses is answered with a
\* WIDGET_ACTION_RESPONSE.
EngineRefusalAnswered ==
    (last.type = "WIDGET_ACTION" /\ last.status = "400 Action executed")
    => last.pushed = "WIDGET_ACTION_RESPONSE"

\* C23: every WIDGET_ACTION refused for an authorization or validation
\* reason (Forbidden for a WidgetAccess connection or a connection that is
\* not the owner's, NotFound, InvalidArgument, UnsupportedWidgetType) has a
\* WIDGET_ACTION_RESPONSE with success=false posted to the originating
\* connection before the handler returns.
C23_RefusalAnswered ==
    (last.type = "WIDGET_ACTION" /\ last.status \in RefusalStatuses)
    => last.pushed = "WIDGET_ACTION_RESPONSE"

\* ------------------------------------------------------------------ C24
\* The state the handler of message leaves when it runs alone on item
\* widget at the present time.
Alone(widget, message) ==
    LET result == action_result(widget, message.action, message.duration, now)
    IN  IF result.success /\ ~update_raises(message)
        THEN set_state(widget, "w1", result.new_state)
        ELSE widget

\* C24: two WIDGET_ACTIONs on one widget handled concurrently are not
\* serialised: the write of each stores the transition computed from the
\* state its handler read, whatever the stored state has become since, so
\* the last writer wins.
C24_LastWriterWins ==
    [][\A c \in ConnIds :
         (inv[c].pc = "action_update" /\ inv'[c].pc = "action_send")
         => LET w == inv[c].message.widgetId
            IN  /\ widgets'[w].state =
                     action_result(inv[c].widget, inv[c].message.action,
                                   inv[c].message.duration, now).new_state
                /\ widgets'[w] = set_state(widgets[w], w, inv[c].new_state)]_vars

\* Both handlers read the same item, both have written, and the stored
\* state, the second writer's, is the outcome of neither serial order of the
\* two actions: the first writer's effect is lost.
C24_Witness ==
    \E c, d \in SpecConns :
       /\ c # d
       /\ inv[c].pc = "action_send" /\ inv[c].success
       /\ inv[d].pc = "action_send" /\ inv[d].success
       /\ inv[c].message.widgetId = "w1" /\ inv[d].message.widgetId = "w1"
       /\ inv[c].widget = inv[d].widget
       /\ inv[c].new_state # inv[c].widget.state
       /\ widgets["w1"].state = inv[d].new_state
       /\ widgets["w1"] # Alone(Alone(inv[c].widget, inv[c].message), inv[d].message)
       /\ widgets["w1"] # Alone(Alone(inv[c].widget, inv[d].message), inv[c].message)

\* ------------------------------------------------------------------ C25
\* C25: duration_left is never negative: from a state with duration_left >=
\* 0 and a configured duration >= 0 (or none), the stored state after any
\* sequence of start, pause, resume, reset and set_duration at non-decreasing
\* times has duration_left >= 0, and so has the state every action computes
\* from it, a pause long after the countdown ran out included.
C25_DurationNonNegative ==
    /\ Countdown.duration_left >= 0
    /\ inv["c1"].new_state.duration_left >= 0
    /\ \A message \in EngineMessages :
          LET result == handle_countdown_action(widgets["w1"], message.action,
                                                message.duration, now)
          IN  result.success => result.new_state.duration_left >= 0

\* A countdown is running past its end: more time has elapsed since the
\* last tick than was left, and the pause computed now leaves 0.
C25_Witness ==
    /\ Countdown.enabled
    /\ Countdown.last_tick_timestamp # NoTick
    /\ Countdown.duration_left - (now - Countdown.last_tick_timestamp) < 0
    /\ countdown_pause(Countdown, now).new_state.duration_left = 0

\* ------------------------------------------------------------------ C26
\* The part of the mapping that holds: the result is "/" followed by the
\* quoted path, and a space comes out as %20.
RewriteQuotes ==
    /\ last.url = <<"/">> \o quote(last.path)
    /\ \A i \in 1..Len(last.url) : last.url[i] # " "

\* C26: rewrite_path drops the leading "transcode" component and
\* percent-encodes the rest: for every path "transcode/<rest>" the result
\* is "/" followed by the quoted <rest>.
C26_RewritePath ==
    (/\ Len(last.path) >= 2
     /\ last.path[1] = "transcode"
     /\ last.path[2] = "/")
    => last.url = <<"/">> \o quote(SubSeq(last.path, 3, Len(last.path)))

\* ------------------------------------------------------------------ C27
\* Connection c's record is a FullAccess record.
FullAccessRecord(c) ==
    /\ connections[c].exists
    /\ connections[c].authType = "FullAccess"
    /\ connections[c].widgetId = None

\* C27: once a WIDGET_UNSUBSCRIBE for widget w from FullAccess connection c
\* is handled, w is out of c's subscription set and c's other subscriptions
\* are as they were; w comes back into the set only by a subscribe of c to
\* w; and a record of w whose recipients are computed while w is not in
\* the set has no message posted to c.
C27_UnsubscribedNotSent ==
    [][\A c \in ConnIds :
         /\ (/\ inv[c].pc = "routed"
             /\ inv[c].message.type = "WIDGET_UNSUBSCRIBE"
             /\ last'.conn = c
             /\ last'.status = "200 Unsubscribed")
            => connections'[c].subscribed_widgets =
                 connections[c].subscribed_widgets \ {inv[c].message.widgetId}
         /\ \A w \in WidgetIds :
               (/\ w \notin connections[c].subscribed_widgets
                /\ w \in connections'[c].subscribed_widgets)
               => /\ inv[c].pc = "subscribe_update"
                  /\ inv[c].message.widgetId = w
         /\ (/\ WidgetRecordTaken
             /\ FullAccessRecord(c)
             /\ wc'.record.NewImage.id \notin connections[c].subscribed_widgets)
            => c \notin wc'.connections
         /\ \A pair \in wc'.tried : pair[2] \in wc'.connections]_vars

\* A FullAccess connection has just unsubscribed from one widget and is
\* still subscribed to the other.
C27_Witness ==
    \E c \in ConnIds, w \in WidgetIds :
       /\ last.conn = c
       /\ last.type = "WIDGET_UNSUBSCRIBE"
       /\ last.status = "200 Unsubscribed"
       /\ last.widgetId = w
       /\ FullAccessRecord(c)
       /\ w \notin connections[c].subscribed_widgets
       /\ connections[c].subscribed_widgets # {}

\* ------------------------------------------------------------------ C28
\* A record that carries the stored state of widget w.
CarriesStored(record, w) ==
    /\ record.NewImage.id = w
    /\ record.NewImage.state = widgets[w].state

\* The stored state of w is still to be dispatched: its stream record waits
\* in the stream or is an unfinished record of the consumer's batch.
DispatchPending(w) ==
    \/ \E i \in 1..Len(stream) : CarriesStored(stream[i], w)
    \/ /\ wc.pc # "idle"
       /\ \E i \in (wc.i + 1)..Len(wc.batch) : CarriesStored(wc.batch[i], w)

\* C28: a subscriber does not end up with a stale state: when the subscribe
\* handler pushes the widget it read as WIDGET_INITIAL_STATE and returns,
\* either the state pushed is the stored state, or the mutation that
\* replaced it is still to be dispatched (and will bring the stored state
\* to the subscriber).
C28_NoStaleSubscriber ==
    [][\A c \in ConnIds :
         (/\ inv[c].pc = "subscribe_send"
          /\ inv'[c].pc = "idle"
          /\ last'.outcome = "ok"
          /\ widgets[inv[c].message.widgetId].exists)
         => \/ inv[c].widget.state = widgets[inv[c].message.widgetId].state
            \/ DispatchPending(inv[c].message.widgetId)]_vars

\* ------------------------------------------------------------------ C29
\* resume leaves duration_left as it is.
ResumeKeepsDurationLeft ==
    Applied(widgets["w1"], "resume", now).state.duration_left
      = Countdown.duration_left

\* C29: a resume of a countdown that is already running (enabled since
\* last_tick_timestamp = t < now) does not change the time it has left,
\* duration_left - (now - t): no running time is lost.
C29_ResumeKeepsRemaining ==
    (/\ Countdown.enabled
     /\ Countdown.last_tick_timestamp # NoTick
     /\ Countdown.last_tick_timestamp < now)
    => Remaining(Applied(widgets["w1"], "resume", now).state, now)
         = Remaining(Countdown, now)

\* ------------------------------------------------------------------ C30
\* The states resume and set_duration(2) can give the countdown of InitLive
\* while the clock stands at 0.
LiveStates ==
    [enabled : BOOLEAN, duration_left : {1, 2},
     last_tick_timestamp : {NoTick, 0}, extra : {FALSE}]

\* Every state the feed carries is one of LiveStates.
FeedCarriesLiveStates ==
    \A i \in 1..Len(stream) : stream[i].NewImage.state \in LiveStates

\* A modify event of w1 whose new state is st, different from the previous
\* one, is pending in the mutation feed.
ModifyPending(st) ==
    \E i \in 1..Len(stream) :
       /\ stream[i].eventName = "MODIFY"
       /\ stream[i].NewImage.id = "w1"
       /\ stream[i].NewImage.state = st
       /\ stream[i].OldImage.state # st

\* Connection c is open and subscribed to w1 as its owner, or bound to it.
Listening(c) ==
    /\ transport[c] = "open"
    /\ connections[c].exists
    /\ \/ /\ connections[c].user_id = WidgetOwner("w1")
          /\ "w1" \in connections[c].subscribed_widgets
       \/ connections[c].widgetId = "w1"

\* The consumer has posted a WIDGET_STATE_UPDATE of w1 carrying st to c.
StateUpdateSent(c, st) ==
    /\ wc.record.NewImage.id = "w1"
    /\ wc.record.NewImage.state = st
    /\ <<"WIDGET_STATE_UPDATE", c>> \in wc.tried

\* The handler is about to post the success response only when the state it
\* computed is the one stored.
ResponseAfterWrite ==
    \A c \in ConnIds :
       (inv[c].pc = "action_send" /\ inv[c].success)
       => widgets[inv[c].message.widgetId].state = inv[c].new_state

\* C30: the WIDGET_ACTION_RESPONSE with success=true is sent only after the
\* new state is in the Widget Store; and when the feed delivers the modify
\* event of a changed state and the relay accepts sends, a
\* WIDGET_STATE_UPDATE carrying the new state is eventually sent to every
\* connection that stays subscribed to, or bound to, the widget.
C30_ActionReachesSubscribers ==
    /\ []FeedCarriesLiveStates
    /\ []ResponseAfterWrite
    /\ \A c \in SpecConns : \A st \in LiveStates :
          (ModifyPending(st) /\ Listening(c))
             ~> (StateUpdateSent(c, st) \/ ~Listening(c))

\* The action of c1 changed the state of w1 and the update carrying the
\* state it wrote has been sent to the subscriber and to the bound connection.
C30_Witness ==
    /\ wc.record.eventName = "MODIFY"
    /\ wc.record.NewImage.state # wc.record.OldImage.state
    /\ \A c \in SpecConns :
          Listening(c) /\ StateUpdateSent(c, widgets["w1"].state)

====
